---- MODULE Spec2Model ----
(***************************************************************************)
(* A model of connectors/core/connector_framework.py: application          *)
(* discovery (ApplicationDiscoveryAgent), its signal extractors, protocol  *)
(* selection and pair enumeration (ConnectorOrchestrator).                 *)
(*                                                                         *)
(* Python values are modelled as follows.  A list is a sequence.  A dict   *)
(* is a record [keys, val]: keys is the sequence of its keys in insertion  *)
(* order (the order list(d.keys()) returns), val maps each key to its      *)
(* value.  An Optional value is a sequence of length at most one: None is  *)
(* << >> and a present value x is << x >>.  An Enum member is its value    *)
(* string.                                                                 *)
(***************************************************************************)
EXTENDS Integers, Sequences, FiniteSets, TLC

(***************************************************************************)
(* Bounds of the model.                                                    *)
(***************************************************************************)
\* longest api_endpoints list of an input record of the protocol selector
MaxEndpoints == 1
\* most calls in a source file handed to _parse_routes_from_file
MaxCalls == 2
\* most package names in one section of a manifest handed to _extract_dependencies
MaxSectionLen == 2
\* number of candidate directories that may exist in a discovered workspace
MaxDirs == 2
\* number of candidate directories that may exist when the orchestrator initializes
MaxApps == 3

(***************************************************************************)
(* Generic helpers on sequences.                                           *)
(***************************************************************************)
Range(s) == {s[k] : k \in 1..Len(s)}

NoDuplicates(s) == \A p, q \in 1..Len(s) : p # q => s[p] # s[q]

RECURSIVE SeqsUpTo(_, _)
\* all sequences over S of length at most n
SeqsUpTo(S, n) ==
  IF n = 0 THEN {<<>>}
  ELSE LET shorter == SeqsUpTo(S, n - 1)
       IN  shorter \cup {Append(s, x) : s \in {t \in shorter : Len(t) = n - 1}, x \in S}

(***************************************************************************)
(* ApplicationType and ConnectionProtocol (the two Enums).                 *)
(***************************************************************************)
NODEJS_TYPESCRIPT == "nodejs_typescript"
PYTHON_STREAMLIT == "python_streamlit"
REACT_FRONTEND == "react_frontend"
EXPRESS_BACKEND == "express_backend"
ApplicationType == {NODEJS_TYPESCRIPT, PYTHON_STREAMLIT, REACT_FRONTEND, EXPRESS_BACKEND}

REST_API == "rest_api"
WEBSOCKET == "websocket"
GRAPHQL == "graphql"
MESSAGE_QUEUE == "message_queue"
DIRECT_FUNCTION == "direct_function"
ConnectionProtocol == {REST_API, WEBSOCKET, GRAPHQL, MESSAGE_QUEUE, DIRECT_FUNCTION}

None == <<>>
Some(x) == << x >>

\* the candidate directory names of discover_applications, in its order
app_directories ==
  << "HumanityFrontier", "SpaceAgent", "MusicPortal", "ParadoxResolver",
     "ConsciousnessProbe", "QuantumSingularity", "pitchfork-echo-studio", "SpaceChild" >>

\* the dataclass ApplicationMetadata, with the fields the framework fills and reads
\* (base_path is determined by name; database_schema and integration_points are
\* never read)
ApplicationMetadata(name, type, port, api_endpoints, dependencies) ==
  [name |-> name, type |-> type, port |-> port,
   api_endpoints |-> api_endpoints, dependencies |-> dependencies]

\* the dataclass ConnectorConfig as _create_connector_config fills it
ConnectorConfig(source_app, target_app, protocols) ==
  [source_app |-> source_app, target_app |-> target_app, protocols |-> protocols,
   data_mappings |-> <<>>, transformation_rules |-> <<>>, sync_frequency |-> "real_time"]

VARIABLES
  \* _determine_protocols: its two arguments, its result, "ready"/"returned"
  source, target, protocols, selPc,
  \* _determine_application_type: its arguments, its result, "ready"/"returned"
  type_name, type_path, app_type, typePc,
  \* _parse_routes_from_file: the file, the returned list, "ready"/"returned"
  content, endpoints, routePc,
  \* _extract_dependencies: its argument, the returned list, "ready"/"returned"
  package_json, deps, depPc,
  \* ApplicationDiscoveryAgent: the workspace's directories, self.applications,
  \* how the last discover_applications call ended, and what that call found on
  \* disk: per candidate, whether its directory existed and whether its
  \* package.json existed without parsing
  fs, applications, discPc, found,
  \* ConnectorOrchestrator: self.applications, the position of
  \* generate_all_connectors (orchPc, app_names, gi, gj), its list
  \* generated_connectors, the configs handed to generate_connector so far and
  \* the indices (in that list) of those whose generation raised
  orch_applications, orchPc, app_names, gi, gj, generated_connectors, emitted, failed

selVars == << source, target, protocols, selPc >>
typeVars == << type_name, type_path, app_type, typePc >>
routeVars == << content, endpoints, routePc >>
depVars == << package_json, deps, depPc >>
discVars == << fs, applications, discPc, found >>
orchVars == << orch_applications, orchPc, app_names, gi, gj, generated_connectors,
               emitted, failed >>
vars == << selVars, typeVars, routeVars, depVars, discVars, orchVars >>

\* a Python dict: keys in insertion order, val the mapping
EmptyDict == [keys |-> <<>>, val |-> <<>>]

\* d[k] = v: a new key goes last, a known key keeps its place
DictSet(d, k, v) ==
  IF k \in Range(d.keys)
  THEN [d EXCEPT !.val = [x \in Range(d.keys) |-> IF x = k THEN v ELSE d.val[x]]]
  ELSE [keys |-> Append(d.keys, k),
        val |-> [x \in Range(d.keys) \cup {k} |-> IF x = k THEN v ELSE d.val[x]]]

\* the variables of a part that a specification does not exercise
SelOff == source = None /\ target = None /\ protocols = <<>> /\ selPc = "off"
TypeOff == type_name = "" /\ type_path = None /\ app_type = "" /\ typePc = "off"
RouteOff == content = None /\ endpoints = <<>> /\ routePc = "off"
DepOff == package_json = None /\ deps = <<>> /\ depPc = "off"
DiscOff == fs = None /\ applications = EmptyDict /\ discPc = "off" /\ found = None
OrchOff ==
  /\ orch_applications = EmptyDict /\ orchPc = "off" /\ app_names = <<>>
  /\ gi = 0 /\ gj = 0 /\ generated_connectors = <<>> /\ emitted = <<>> /\ failed = {}

(***************************************************************************)
(* ConnectorOrchestrator._determine_protocols                              *)
(***************************************************************************)
\* a plausible slip: the REST default appended without the "if not protocols" test
_determine_protocols_default_always(src, tgt) ==
  LET rest == IF src.api_endpoints # <<>> \/ tgt.api_endpoints # <<>>
              THEN << REST_API >> ELSE <<>>
      ws   == IF src.type \in {REACT_FRONTEND, NODEJS_TYPESCRIPT}
              THEN Append(rest, WEBSOCKET) ELSE rest
  IN  Append(ws, REST_API)

_determine_protocols(src, tgt) ==
  LET rest == IF src.api_endpoints # <<>> \/ tgt.api_endpoints # <<>>
              THEN << REST_API >> ELSE <<>>
      ws   == IF src.type \in {REACT_FRONTEND, NODEJS_TYPESCRIPT}
              THEN Append(rest, WEBSOCKET) ELSE rest
  IN  IF ws = <<>> THEN << REST_API >> ELSE ws

\* route strings the input records' endpoint lists are built from
EndpointPaths == {"/api/users", "/api/orders"}

\* the records the selector is applied to: every kind, every short endpoint list
SelectorRecords(name) ==
  {ApplicationMetadata(name, t, None, e, <<>>) :
     t \in ApplicationType, e \in SeqsUpTo(EndpointPaths, MaxEndpoints)}

SelInit ==
  /\ source \in SelectorRecords(app_directories[1])
  /\ target \in SelectorRecords(app_directories[2])
  /\ protocols = <<>>
  /\ selPc = "ready"
  /\ TypeOff /\ RouteOff /\ DepOff /\ DiscOff /\ OrchOff

\* one call protocols = self._determine_protocols(source_meta, target_meta)
DetermineProtocols ==
  /\ selPc = "ready"
  /\ protocols' = _determine_protocols(source, target)
  /\ selPc' = "returned"
  /\ UNCHANGED << source, target, typeVars, routeVars, depVars, discVars, orchVars >>

SelNext == DetermineProtocols

SpecProtocols == SelInit /\ [][SelNext]_vars

\* the kinds the spec calls live/interactive
LiveKinds == {REACT_FRONTEND, NODEJS_TYPESCRIPT}

\* C2: _determine_protocols(a, b) and _determine_protocols(b, a) return the same
\* set of protocols, whichever record is passed as source and which as target.
C2_ProtocolSetSymmetric ==
  selPc = "returned" => Range(protocols) = Range(_determine_protocols(target, source))

\* C3: the result of _determine_protocols(a, b) includes WEBSOCKET whenever a.type
\* or b.type is REACT_FRONTEND or NODEJS_TYPESCRIPT, also when only the target is.
C3_WebSocketIfEitherLive ==
  (selPc = "returned" /\ (source.type \in LiveKinds \/ target.type \in LiveKinds))
    => WEBSOCKET \in Range(protocols)

\* C4: for every two records, _determine_protocols returns a non-empty list in
\* which no protocol appears twice, and exactly [REST_API] when neither the REST
\* rule (an endpoint list is non-empty) nor the WebSocket rule (a kind is live)
\* applies.
C4_NonEmptyDuplicateFree ==
  selPc = "returned" =>
    /\ protocols # <<>>
    /\ NoDuplicates(protocols)
    /\ Range(protocols) \subseteq ConnectionProtocol
    /\ ( /\ source.api_endpoints = <<>> /\ target.api_endpoints = <<>>
         /\ source.type \notin LiveKinds /\ target.type \notin LiveKinds )
       => protocols = << REST_API >>

\* a call in which neither rule applies and the fallback gives the result
C4_Witness ==
  /\ selPc = "returned"
  /\ source.api_endpoints = <<>> /\ target.api_endpoints = <<>>
  /\ source.type = PYTHON_STREAMLIT /\ target.type = EXPRESS_BACKEND
  /\ protocols = << REST_API >>

(***************************************************************************)
(* The workspace on disk.                                                  *)
(*                                                                         *)
(* A package.json manifest (a dict once loaded) has the three keys the     *)
(* framework reads, each Optional: scripts holds the 'dev' script ('' when *)
(* scripts has no 'dev'), dependencies and devDependencies hold their      *)
(* package names in key order.  A dev script is a sequence of tokens: a    *)
(* word, or PORT= followed by the digits in digits (none: PORT= followed   *)
(* by something else).                                                     *)
(***************************************************************************)
Word(w) == [text |-> w, digits |-> <<>>]
PortAssign(ds) == [text |-> "PORT=", digits |-> ds]

Manifest(scripts, dependencies, devDependencies) ==
  [scripts |-> scripts, dependencies |-> dependencies, devDependencies |-> devDependencies]

\* the file package.json of a directory: missing, unparsable, or holding json
NoPackageFile == [exists |-> FALSE, parses |-> FALSE, json |-> None]
MalformedPackageFile == [exists |-> TRUE, parses |-> FALSE, json |-> None]
PackageFile(m) == [exists |-> TRUE, parses |-> TRUE, json |-> Some(m)]

\* a source file: a sequence of calls <obj>.<verb>("<path>"), or unreadable
SourceFile(calls) == [readable |-> TRUE, calls |-> calls]
UnreadableFile == [readable |-> FALSE, calls |-> <<>>]
Call(obj, verb, path) == [obj |-> obj, verb |-> verb, path |-> path]

\* an application directory: its package.json, whether src/components and
\* client/src exist, and the files the server globs yield, in their order
Directory(pkg, src_components, client_src, server_files) ==
  [package_json |-> pkg, src_components |-> src_components,
   client_src |-> client_src, server_files |-> server_files]

(***************************************************************************)
(* ApplicationDiscoveryAgent._determine_application_type                   *)
(***************************************************************************)
\* a plausible slip: the component directories tested outside the package.json test
_determine_application_type_flat(name, path) ==
  IF name = "ParadoxResolver" THEN PYTHON_STREAMLIT
  ELSE IF path.src_components \/ path.client_src THEN REACT_FRONTEND
  ELSE NODEJS_TYPESCRIPT

_determine_application_type(name, path) ==
  IF name = "ParadoxResolver" THEN PYTHON_STREAMLIT
  ELSE IF path.package_json.exists
       THEN IF path.src_components \/ path.client_src
            THEN REACT_FRONTEND
            ELSE NODEJS_TYPESCRIPT
       ELSE NODEJS_TYPESCRIPT

\* a manifest with a port, a dependency and a development dependency
SampleManifest ==
  Manifest(Some(<< PortAssign(<< 4, 0, 0, 0 >>), Word("vite"), Word("dev") >>),
           Some(<< "express" >>), Some(<< "jest" >>))

PackageFiles == {NoPackageFile, MalformedPackageFile, PackageFile(SampleManifest)}

TypeInit ==
  /\ type_name \in Range(app_directories)
  /\ type_path \in {Directory(pkg, c, cs, <<>>) :
                      pkg \in PackageFiles, c \in BOOLEAN, cs \in BOOLEAN}
  /\ app_type = ""
  /\ typePc = "ready"
  /\ SelOff /\ RouteOff /\ DepOff /\ DiscOff /\ OrchOff

\* one call app_type = self._determine_application_type(name, path)
DetermineApplicationType ==
  /\ typePc = "ready"
  /\ app_type' = _determine_application_type(type_name, type_path)
  /\ typePc' = "returned"
  /\ UNCHANGED << type_name, type_path, selVars, routeVars, depVars, discVars, orchVars >>

TypeNext == DetermineApplicationType

SpecType == TypeInit /\ [][TypeNext]_vars

HasComponentDir(path) == path.src_components \/ path.client_src

\* C8 as stated: the override name first; otherwise REACT_FRONTEND when
\* src/components or client/src is present, with or without a package.json;
\* otherwise NODEJS_TYPESCRIPT.
C8_ComponentDirAloneDecides ==
  typePc = "returned" =>
    app_type = IF type_name = "ParadoxResolver" THEN PYTHON_STREAMLIT
               ELSE IF HasComponentDir(type_path) THEN REACT_FRONTEND
               ELSE NODEJS_TYPESCRIPT

\* C8 as amended: the override name first; otherwise REACT_FRONTEND when a
\* package.json is present and src/components or client/src is present;
\* otherwise (no package.json, or no such directory) NODEJS_TYPESCRIPT.
C8_ComponentDirNeedsManifest ==
  typePc = "returned" =>
    app_type = IF type_name = "ParadoxResolver" THEN PYTHON_STREAMLIT
               ELSE IF type_path.package_json.exists /\ HasComponentDir(type_path)
                    THEN REACT_FRONTEND
               ELSE NODEJS_TYPESCRIPT

\* a component directory without a package.json has been classified
C8_Witness ==
  /\ typePc = "returned"
  /\ type_name # "ParadoxResolver"
  /\ type_path.src_components /\ ~type_path.package_json.exists
  /\ app_type = NODEJS_TYPESCRIPT

(***************************************************************************)
(* ApplicationDiscoveryAgent._parse_routes_from_file                       *)
(*                                                                         *)
(* Each entry of express_patterns is a regular expression                  *)
(* <obj>\.<verb>\(['"]([^'"]+)['"] ; re.findall returns the path group of  *)
(* its matches from left to right.  On a text made of calls                *)
(* <obj>.<verb>("<path>") with a non-empty, quote-free path, a pattern     *)
(* matches exactly the calls with its obj and its verb.                    *)
(***************************************************************************)
express_patterns ==
  << [obj |-> "app", verb |-> "get"], [obj |-> "app", verb |-> "post"],
     [obj |-> "app", verb |-> "put"], [obj |-> "app", verb |-> "delete"],
     [obj |-> "router", verb |-> "get"], [obj |-> "router", verb |-> "post"] >>

RECURSIVE findall(_, _)
\* re.findall(pattern, content)
findall(pattern, calls) ==
  IF calls = <<>> THEN <<>>
  ELSE LET c == Head(calls)
       IN  (IF c.obj = pattern.obj /\ c.verb = pattern.verb THEN << c.path >> ELSE <<>>)
           \o findall(pattern, Tail(calls))

RECURSIVE ExtendByPatterns(_, _, _)
\* for pattern in express_patterns: endpoints.extend(re.findall(pattern, content))
ExtendByPatterns(acc, patterns, calls) ==
  IF patterns = <<>> THEN acc
  ELSE ExtendByPatterns(acc \o findall(Head(patterns), calls), Tail(patterns), calls)

_parse_routes_from_file(file) ==
  IF ~file.readable THEN <<>>   \* open/read raised: caught, endpoints still []
  ELSE ExtendByPatterns(<<>>, express_patterns, file.calls)

\* what the calls of the modelled texts are built from
CallObjects == {"app", "router", "server"}
CallVerbs == {"get", "post", "put", "delete", "patch"}
Calls == {Call(o, v, p) : o \in CallObjects, v \in CallVerbs, p \in EndpointPaths}

RouteInit ==
  /\ content \in {UnreadableFile} \cup {SourceFile(cs) : cs \in SeqsUpTo(Calls, MaxCalls)}
  /\ endpoints = <<>>
  /\ routePc = "ready"
  /\ SelOff /\ TypeOff /\ DepOff /\ DiscOff /\ OrchOff

\* one call endpoints = self._parse_routes_from_file(file_path)
ParseRoutesFromFile ==
  /\ routePc = "ready"
  /\ endpoints' = _parse_routes_from_file(content)
  /\ routePc' = "returned"
  /\ UNCHANGED << content, selVars, typeVars, depVars, discVars, orchVars >>

RouteNext == ParseRoutesFromFile

SpecRoutes == RouteInit /\ [][RouteNext]_vars

RECURSIVE PathsInTextOrder(_)
\* the paths of the calls <app|router>.<get|post|put|delete>("<path>"), as they occur
PathsInTextOrder(calls) ==
  IF calls = <<>> THEN <<>>
  ELSE LET c == Head(calls)
       IN  (IF c.obj \in {"app", "router"} /\ c.verb \in {"get", "post", "put", "delete"}
            THEN << c.path >> ELSE <<>>)
           \o PathsInTextOrder(Tail(calls))

\* C9: for any source text, _parse_routes_from_file returns the paths of all calls
\* <app|router>.<get|post|put|delete>("<path>") in the order the calls occur in
\* the text, and an empty list when no call matches.
C9_PathsInOrderOfText ==
  (routePc = "returned" /\ content.readable)
    => endpoints = PathsInTextOrder(content.calls)

(***************************************************************************)
(* ApplicationDiscoveryAgent._extract_dependencies and _extract_port       *)
(***************************************************************************)
RECURSIVE ExtendBySections(_, _)
\* for section in [...]: if section in package_json: deps.extend(keys)
ExtendBySections(acc, sections) ==
  IF sections = <<>> THEN acc
  ELSE ExtendBySections(
         IF Head(sections) # None THEN acc \o Head(sections)[1] ELSE acc,
         Tail(sections))

_extract_dependencies(pkg) ==
  IF pkg = None THEN <<>>
  ELSE ExtendBySections(<<>>, << pkg[1].dependencies, pkg[1].devDependencies >>)

RECURSIVE int(_)
\* int(match.group(1)) of a digit string
int(digits) ==
  IF digits = <<>> THEN 0
  ELSE 10 * int(SubSeq(digits, 1, Len(digits) - 1)) + digits[Len(digits)]

RECURSIVE SearchPort(_)
\* re.search(r'PORT=(\d+)', dev_script): the first PORT= that digits follow
SearchPort(script) ==
  IF script = <<>> THEN None
  ELSE IF Head(script).text = "PORT=" /\ Head(script).digits # <<>>
       THEN Some(int(Head(script).digits))
       ELSE SearchPort(Tail(script))

_extract_port(pkg) ==
  IF pkg = None \/ pkg[1].scripts = None THEN None
  ELSE SearchPort(pkg[1].scripts[1])

PackageNames == {"express", "jest", "vite"}

\* the key lists of a section: duplicate-free, a dict having each key once
SectionKeys == {s \in SeqsUpTo(PackageNames, MaxSectionLen) : NoDuplicates(s)}
Sections == {None} \cup {Some(s) : s \in SectionKeys}

DepInit ==
  /\ package_json \in {None} \cup {Some(Manifest(None, d, dd)) : d \in Sections, dd \in Sections}
  /\ deps = <<>>
  /\ depPc = "ready"
  /\ SelOff /\ TypeOff /\ RouteOff /\ DiscOff /\ OrchOff

\* one call dependencies = self._extract_dependencies(package_json)
ExtractDependencies ==
  /\ depPc = "ready"
  /\ deps' = _extract_dependencies(package_json)
  /\ depPc' = "returned"
  /\ UNCHANGED << package_json, selVars, typeVars, routeVars, discVars, orchVars >>

DepNext == ExtractDependencies

SpecDeps == DepInit /\ [][DepNext]_vars

\* the names a manifest declares in either section
Declared(pkg) ==
  IF pkg = None THEN {}
  ELSE (IF pkg[1].dependencies = None THEN {} ELSE Range(pkg[1].dependencies[1]))
       \cup (IF pkg[1].devDependencies = None THEN {} ELSE Range(pkg[1].devDependencies[1]))

\* C10: _extract_dependencies returns the union of the names declared in
\* 'dependencies' and 'devDependencies', no name more than once (also when a
\* package is declared in both sections); an absent manifest yields nothing.
C10_UnionWithoutDuplicates ==
  depPc = "returned" =>
    /\ Range(deps) = Declared(package_json)
    /\ NoDuplicates(deps)

(***************************************************************************)
(* ApplicationDiscoveryAgent: _extract_api_endpoints, _analyze_application *)
(* and discover_applications.                                              *)
(*                                                                         *)
(* A workspace maps the candidate names that may exist in it to an         *)
(* Optional directory (None: no such directory); every other candidate is  *)
(* missing.                                                                *)
(***************************************************************************)
RECURSIVE _extract_api_endpoints(_)
\* endpoints.extend(self._parse_routes_from_file(file_path)) for each globbed file
_extract_api_endpoints(files) ==
  IF files = <<>> THEN <<>>
  ELSE _parse_routes_from_file(Head(files)) \o _extract_api_endpoints(Tail(files))

\* whether the type makes _analyze_application open package.json
LoadsManifest(name, dir) ==
  /\ _determine_application_type(name, dir) \in {NODEJS_TYPESCRIPT, REACT_FRONTEND}
  /\ dir.package_json.exists

\* json.load(f) raises on a package.json that does not parse; nothing catches it
AnalyzeRaises(name, dir) == LoadsManifest(name, dir) /\ ~dir.package_json.parses

\* the record _analyze_application returns when it returns
_analyze_application(name, dir) ==
  LET pkg == IF LoadsManifest(name, dir) THEN dir.package_json.json ELSE None
  IN  ApplicationMetadata(name, _determine_application_type(name, dir),
                          _extract_port(pkg),
                          _extract_api_endpoints(dir.server_files),
                          _extract_dependencies(pkg))

\* app_path.exists()
DirExists(w, name) == name \in DOMAIN w /\ w[name] # None

RECURSIVE DiscoverFrom(_, _, _)
\* the loop of discover_applications from candidate k on: the dict it leaves in
\* self.applications and whether an exception left the loop
DiscoverFrom(apps, k, w) ==
  IF k > Len(app_directories) THEN [applications |-> apps, raised |-> FALSE]
  ELSE LET name == app_directories[k]
       IN  IF ~DirExists(w, name) THEN DiscoverFrom(apps, k + 1, w)
           ELSE IF AnalyzeRaises(name, w[name][1])
                THEN [applications |-> apps, raised |-> TRUE]
                ELSE DiscoverFrom(DictSet(apps, name, _analyze_application(name, w[name][1])),
                                  k + 1, w)

discover_applications(apps, w) == DiscoverFrom(apps, 1, w)

\* n candidates, ParadoxResolver the last of them
ParadoxIndex == CHOOSE k \in 1..Len(app_directories) : app_directories[k] = "ParadoxResolver"
LastCandidates(n) ==
  {app_directories[k] : k \in {x \in 1..Len(app_directories) :
                                 x > ParadoxIndex - n /\ x <= ParadoxIndex}}

\* a server file with one matching call
SampleServerFile == SourceFile(<< Call("app", "get", "/api/users") >>)

\* the directories of the modelled workspaces
Directories ==
  {Directory(pkg, c, FALSE, files) :
     pkg \in PackageFiles, c \in BOOLEAN, files \in {<<>>, << SampleServerFile >>}}

Workspaces(n) == [LastCandidates(n) -> {None} \cup {Some(d) : d \in Directories}]

\* what a call of discover_applications finds on disk
Observed(w) ==
  [name \in DOMAIN w |->
     IF w[name] = None THEN [exists |-> FALSE, unparsable |-> FALSE]
     ELSE [exists |-> TRUE,
           unparsable |-> w[name][1].package_json.exists /\ ~w[name][1].package_json.parses]]

DiscInit ==
  /\ fs \in Workspaces(MaxDirs)
  /\ applications = EmptyDict
  /\ discPc = "new"
  /\ found = None
  /\ SelOff /\ TypeOff /\ RouteOff /\ DepOff /\ OrchOff

\* one call of discover_applications on the agent, the first or a later one
DiscoverApplications ==
  /\ discPc \in {"new", "returned", "raised"}
  /\ LET r == discover_applications(applications, fs)
     IN  /\ applications' = r.applications
         /\ discPc' = IF r.raised THEN "raised" ELSE "returned"
  /\ found' = Some(Observed(fs))
  /\ UNCHANGED << fs, selVars, typeVars, routeVars, depVars, orchVars >>

\* the environment creates a candidate directory or changes its contents
WriteDirectory ==
  /\ \E name \in DOMAIN fs, d \in Directories :
       /\ fs[name] # Some(d)
       /\ fs' = [fs EXCEPT ![name] = Some(d)]
  /\ UNCHANGED << applications, discPc, found, selVars, typeVars, routeVars, depVars, orchVars >>

\* the environment removes a candidate directory
RemoveDirectory ==
  /\ \E name \in DOMAIN fs :
       /\ fs[name] # None
       /\ fs' = [fs EXCEPT ![name] = None]
  /\ UNCHANGED << applications, discPc, found, selVars, typeVars, routeVars, depVars, orchVars >>

DiscNext == DiscoverApplications \/ WriteDirectory \/ RemoveDirectory

SpecDiscover == DiscInit /\ [][DiscNext]_vars

\* the last call has ended, one way or the other
DiscoverEnded == discPc \in {"returned", "raised"}

\* the candidates whose directory existed at the last call
FoundNames == {name \in DOMAIN found[1] : found[1][name].exists}

\* C5: a package.json that exists but does not parse is treated as no manifest:
\* the application still gets its record, with no port and no dependencies,
\* discovery goes on to the remaining candidates, and the failure never leaves
\* discover_applications.
C5_MalformedManifestAbsorbed ==
  DiscoverEnded =>
    /\ discPc = "returned"
    /\ \A name \in FoundNames :
         /\ name \in Range(applications.keys)
         /\ found[1][name].unparsable =>
              /\ applications.val[name].port = None
              /\ applications.val[name].dependencies = <<>>

\* C7: after any call of discover_applications, also a repeated one after the
\* directories changed, the returned registry has exactly one record, under its
\* own name, for each candidate whose directory exists at that call and none for
\* any other candidate.
C7_RegistryIsExistingDirectories ==
  discPc = "returned" =>
    /\ Range(applications.keys) = FoundNames
    /\ NoDuplicates(applications.keys)
    /\ \A name \in FoundNames : applications.val[name].name = name

(***************************************************************************)
(* ConnectorOrchestrator: initialize and generate_all_connectors, with     *)
(* ConnectorGenerationAgent.generate_connector as the loop calls it.       *)
(***************************************************************************)
\* str.lower() on the candidate names
lower(name) ==
  CASE name = "HumanityFrontier" -> "humanityfrontier"
    [] name = "SpaceAgent" -> "spaceagent"
    [] name = "MusicPortal" -> "musicportal"
    [] name = "ParadoxResolver" -> "paradoxresolver"
    [] name = "ConsciousnessProbe" -> "consciousnessprobe"
    [] name = "QuantumSingularity" -> "quantumsingularity"
    [] name = "pitchfork-echo-studio" -> "pitchfork-echo-studio"
    [] name = "SpaceChild" -> "spacechild"

\* the file name f"{source.lower()}_{target.lower()}_connector.ts", as its parts
_save_connector_code(config) ==
  << lower(config.source_app), "_", lower(config.target_app), "_connector.ts" >>

_create_connector_config(apps, source_app, target_app) ==
  ConnectorConfig(source_app, target_app,
                  _determine_protocols(apps.val[source_app], apps.val[target_app]))

OrchInit ==
  /\ orch_applications = EmptyDict
  /\ orchPc = "new"
  /\ app_names = <<>>
  /\ gi = 0 /\ gj = 0
  /\ generated_connectors = <<>>
  /\ emitted = <<>>
  /\ failed = {}
  /\ SelOff /\ TypeOff /\ RouteOff /\ DepOff /\ DiscOff

\* initialize() on a workspace in which discovery returns: self.applications is
\* the registry of the fresh discovery agent
InitializeReturns ==
  /\ orchPc = "new"
  /\ \E w \in Workspaces(MaxApps) :
       LET r == discover_applications(EmptyDict, w)
       IN  /\ ~r.raised
           /\ orch_applications' = r.applications
  /\ orchPc' = "ready"
  /\ UNCHANGED << app_names, gi, gj, generated_connectors, emitted, failed,
                  selVars, typeVars, routeVars, depVars, discVars >>

\* initialize() on a workspace in which discovery raises: the exception leaves
\* initialize before self.applications is assigned
InitializeRaises ==
  /\ orchPc = "new"
  /\ \E w \in Workspaces(MaxApps) : discover_applications(EmptyDict, w).raised
  /\ orchPc' = "init_raised"
  /\ UNCHANGED << orch_applications, app_names, gi, gj, generated_connectors, emitted,
                  failed, selVars, typeVars, routeVars, depVars, discVars >>

\* generate_all_connectors is entered: app_names = list(self.applications.keys())
GenerateAllStart ==
  /\ orchPc \in {"new", "ready", "init_raised"}
  /\ app_names' = orch_applications.keys
  /\ gi' = 1 /\ gj' = 2
  /\ generated_connectors' = <<>>
  /\ emitted' = <<>>
  /\ failed' = {}
  /\ orchPc' = "loop"
  /\ UNCHANGED << orch_applications, selVars, typeVars, routeVars, depVars, discVars >>

\* the loop is at source app_names[gi] and target app_names[gj]
AtPair == orchPc = "loop" /\ gi <= Len(app_names) /\ gj <= Len(app_names)

\* the config of the pair the loop is at
PairConfig == _create_connector_config(orch_applications, app_names[gi], app_names[gj])

\* the loop body for one target, generate_connector returning the saved path
GeneratePairReturns ==
  /\ AtPair
  /\ IF app_names[gi] # app_names[gj]
     THEN /\ emitted' = Append(emitted, PairConfig)
          /\ generated_connectors' =
               Append(generated_connectors, _save_connector_code(PairConfig))
     ELSE UNCHANGED << emitted, generated_connectors >>
  /\ gj' = gj + 1
  /\ UNCHANGED << orch_applications, orchPc, app_names, gi, failed,
                  selVars, typeVars, routeVars, depVars, discVars >>

\* the loop body for one target, generate_connector raising (generating or saving
\* the code failed): the exception leaves generate_all_connectors
GeneratePairRaises ==
  /\ AtPair
  /\ app_names[gi] # app_names[gj]
  /\ emitted' = Append(emitted, PairConfig)
  /\ failed' = failed \cup {Len(emitted) + 1}
  /\ orchPc' = "raised"
  /\ UNCHANGED << orch_applications, app_names, gi, gj, generated_connectors,
                  selVars, typeVars, routeVars, depVars, discVars >>

\* app_names[i+1:] is exhausted: the outer loop takes the next source
NextSource ==
  /\ orchPc = "loop"
  /\ gi <= Len(app_names) /\ gj > Len(app_names)
  /\ gi' = gi + 1
  /\ gj' = gi + 2
  /\ UNCHANGED << orch_applications, orchPc, app_names, generated_connectors, emitted,
                  failed, selVars, typeVars, routeVars, depVars, discVars >>

\* the outer loop is exhausted: return generated_connectors
GenerateAllReturn ==
  /\ orchPc = "loop"
  /\ gi > Len(app_names)
  /\ orchPc' = "returned"
  /\ UNCHANGED << orch_applications, app_names, gi, gj, generated_connectors, emitted,
                  failed, selVars, typeVars, routeVars, depVars, discVars >>

OrchNext ==
  \/ InitializeReturns \/ InitializeRaises \/ GenerateAllStart
  \/ GeneratePairReturns \/ GeneratePairRaises \/ NextSource \/ GenerateAllReturn

SpecOrchestrator == OrchInit /\ [][OrchNext]_vars

\* generate_all_connectors has ended, by returning or by an exception
GenerateEnded == orchPc \in {"returned", "raised"}

\* the configs built for the unordered pair {x, y}
ConfigsOf(x, y) ==
  {k \in 1..Len(emitted) : {emitted[k].source_app, emitted[k].target_app} = {x, y}}

\* C1: for every registry R, generate_all_connectors builds exactly
\* |R|*(|R|-1)/2 connector configurations: one for every unordered pair of
\* distinct application names, none with source = target, never both (x,y) and
\* (y,x).
C1_OneConfigPerUnorderedPair ==
  GenerateEnded =>
    LET R == Range(orch_applications.keys)
    IN  /\ 2 * Len(emitted) = Cardinality(R) * (Cardinality(R) - 1)
        /\ \A x, y \in R : x # y => Cardinality(ConfigsOf(x, y)) = 1
        /\ \A k \in 1..Len(emitted) : emitted[k].source_app # emitted[k].target_app

\* the number of pairs the enumeration has
NumPairs == (Len(app_names) * (Len(app_names) - 1)) \div 2

\* C6: if generate_connector fails for one pair, every other pair of the
\* enumeration is still planned and passed to generate_connector: a failure at
\* pair k does not keep pairs k+1.. from being processed.
C6_FailureDoesNotBlockLaterPairs ==
  (GenerateEnded /\ failed # {}) =>
    \A k \in 1..NumPairs : k \in 1..Len(emitted)

====
